---- MODULE Spec2Model ----
(***************************************************************************)
(* Fury Cutter: battle boundary detection engine.                          *)
(*                                                                         *)
(* The module models                                                       *)
(*   - the black/white frame classifier (TransitionFrameScanner),          *)
(*   - the OCR method selection of _get_ocr_text_at_frame (TextExtractor), *)
(*   - the trainer patterns and their matching (TrainerMatcher),           *)
(*   - the text boundary search (BoundarySearch) and                       *)
(*   - the black/white transition search (TransitionSearch)                *)
(* as state machines over one set of variables.  Each component has its    *)
(* own specification; the variables of the other components stay idle.     *)
(***************************************************************************)
EXTENDS Integers, Sequences, FiniteSets, TLC

VARIABLES
    \* TransitionFrameScanner
    mean,           \* mean intensity of the gameplay crop, in hundredths
    cls,            \* "unclassified" | "black" | "white" | "neither"
    \* TextExtractor and TrainerMatcher
    game_config,    \* [version, generation, ocr_pattern]
    shot,           \* what the recogniser reads from the frame: [raw, pre]
    ocr_method,     \* [preprocess, psm] chosen by _get_ocr_text_at_frame
    text,           \* recognised text (sequence of characters)
    identity,       \* TrainerIdentity or NoMatch
    ocr_pc,         \* "frame" | "ocr" | "matched"
    \* the recording (frame source) and the parameters of one battle
    last_frame,     \* index of the last frame of the recording
    visible,        \* frames whose header shows the trainer text
    spelling,       \* "lance" | "alternate": how the header spells the trainer
    black,          \* frames whose gameplay crop is black
    white,          \* frames whose gameplay crop is white
    detection_frame,\* frame where the driver detected the battle
    jump_size,      \* TRANSITION_JUMP
    trainer,        \* identity detected at detection_frame
    ocr_identity,   \* ocr_identity[f]: what OCR and match return for frame f
    small,          \* frames whose pixel buffer does not contain the OCR crop
    other,          \* frames whose header shows the trainer of the next battle
    other_text,     \* what OCR reads from the header of those frames
    \* BoundarySearch and TransitionSearch
    direction,      \* "before" (cut-in) | "after" (cut-out)
    state,          \* state of the running search
    inside,         \* last matching frame
    outside,        \* first non-matching frame
    scan,           \* next frame TransitionSearch classifies
    last_probed,    \* last frame TransitionSearch classified
    probes,         \* probes[direction][phase]: probes made by each phase
    entered,        \* entered[direction][phase]: times each phase was entered
    ocr_probed,     \* frames sent to OCR by the running boundary search
    text_edge,      \* text_edge[direction]: result of BoundarySearch
    degraded,       \* degraded[direction]: boundary is clamped, not refined
    cut,            \* cut[direction]: [frame, status] of TransitionSearch
    segment,        \* the committed battle segment
    \* the caller of the searches
    refine_low,     \* end of the cut-out binary search: "last_match" | "start_frame"
    first_run,      \* result of the first of two runs of find_text_boundary
    previous,       \* the segment committed for the previous battle
    \* label applicator
    content,        \* the value the text of the JSON file evaluates to
    parsed,         \* what parseLabelsJSON returned
    label_pc,       \* "file" | "parsed" | "error_alert" | "empty_alert" | "apply" | "script_error"
    \* the host application: the active sequence and its commands
    tracks,         \* tracks[t][c]: clip c of video track t: [start, end, locked]
    selected,       \* the selected video clips <<t, c>>
    playhead,       \* player position, in ticks
    clip_label,     \* clip_label[<<t, c>>]: index of the clip's label colour
    command_base,   \* id of the host's first label command
    call,           \* the last call of a script function and what it returned
    \* main execution of the label applicator
    labels,         \* parsed.labels
    mode,           \* selectedMode: "auto" | "export"
    loop_i,         \* index of the entry the loop is at
    successCount,
    failCount,
    details,        \* one line per processed entry
    keys_sent,      \* the keys SendKeys delivered
    exported,       \* pyData.clips written by exportForPython
    apply_pc        \* "idle" | "loop" | "reported" | "exported" | "script_error"

scannerVars == <<mean, cls>>
ocrVars == <<game_config, shot, ocr_method, text, identity, ocr_pc>>
recordingVars == <<last_frame, visible, spelling, black, white,
                   detection_frame, jump_size, trainer, ocr_identity, small,
                   other, other_text>>
searchVars == <<direction, state, inside, outside, scan, last_probed, probes,
                entered, ocr_probed, text_edge, degraded, cut, segment>>
runVars == <<refine_low, first_run, previous>>
labelVars == <<content, parsed, label_pc>>
hostVars == <<tracks, selected, playhead, clip_label, command_base, call>>
applyVars == <<labels, mode, loop_i, successCount, failCount, details, keys_sent,
               exported, apply_pc>>
vars == <<scannerVars, ocrVars, recordingVars, searchVars, runVars, labelVars, hostVars, applyVars>>

(***************************************************************************)
(* TransitionFrameScanner: classify                                        *)
(***************************************************************************)
BLACK_THRESHOLD == 5
WHITE_THRESHOLD == 250
MAX_INTENSITY == 255

\* Means are kept in hundredths of an intensity unit (0.01 -> 1, 254.99 -> 25499).
Means == 0..(MAX_INTENSITY * 100)

classify_strict(m) ==
    IF m < BLACK_THRESHOLD * 100 THEN "black"
    ELSE IF m > WHITE_THRESHOLD * 100 THEN "white"
    ELSE "neither"

classify(m) ==
    IF m <= BLACK_THRESHOLD * 100 THEN "black"
    ELSE IF m >= WHITE_THRESHOLD * 100 THEN "white"
    ELSE "neither"

ScannerIdle == mean = 0 /\ cls = "unclassified"

\* A frame is decoded and its gameplay crop has mean intensity m.
ScannerInit == mean \in Means /\ cls = "unclassified"

Classify ==
    /\ cls = "unclassified"
    /\ cls' = classify(mean)
    /\ UNCHANGED <<mean, ocrVars, recordingVars, searchVars,
                   runVars, labelVars, hostVars, applyVars>>

(***************************************************************************)
(* Characters and texts.  A text is a sequence of one-character strings.   *)
(***************************************************************************)
Apostrophe == "'"
CurlyApostrophe == "U+2019"
Space == " "
Digits == {"0", "1", "2", "3", "4", "5", "6", "7", "8", "9"}
LowerLetters == {"a", "c", "e", "h", "i", "l", "m", "n", "o", "p", "r", "s", "t", "v", "x"}
UpperLetters == {"C", "L", "R", "S", "T"}
WordChars == LowerLetters \cup UpperLetters \cup Digits

Lower(c) ==
    CASE c = "C" -> "c"
      [] c = "L" -> "l"
      [] c = "R" -> "r"
      [] c = "S" -> "s"
      [] c = "T" -> "t"
      [] OTHER -> c

\* every run of spaces becomes one space: a space that follows a space is dropped
CollapseSpaces(t) ==
    LET kept == {i \in 1..Len(t) : ~(i > 1 /\ t[i] = Space /\ t[i - 1] = Space)}
    IN  [j \in 1..Cardinality(kept) |->
            t[CHOOSE i \in kept : Cardinality({x \in kept : x <= i}) = j]]

\* lower-case, collapse whitespace, curly apostrophe -> straight apostrophe
Normalize(t) ==
    LET lowered == [i \in 1..Len(t) |->
                       IF t[i] = CurlyApostrophe THEN Apostrophe ELSE Lower(t[i])]
    IN  CollapseSpaces(lowered)

(***************************************************************************)
(* Regular expressions.  A pattern is a sequence of items [set, q] where   *)
(* set is the character class and q the quantifier: "one", "opt" (?),      *)
(* "star" ( * ) or "plus" (+).  Every pattern starts with \b.              *)
(***************************************************************************)
Lit(s) == [i \in 1..Len(s) |-> [set |-> {s[i]}, q |-> "one"]]
Class(S, quant) == <<[set |-> S, q |-> quant]>>

\* positions reached from the positions P by reading one character of S
Advance(S, t, P) == {p + 1 : p \in {x \in P : x <= Len(t) /\ t[x] \in S}}

RECURSIVE Closure(_, _, _)
Closure(S, t, P) ==
    LET Q == P \cup Advance(S, t, P)
    IN  IF Q = P THEN P ELSE Closure(S, t, Q)

ItemEnds(item, t, P) ==
    CASE item.q = "one"  -> Advance(item.set, t, P)
      [] item.q = "opt"  -> P \cup Advance(item.set, t, P)
      [] item.q = "star" -> Closure(item.set, t, P)
      [] item.q = "plus" -> Closure(item.set, t, Advance(item.set, t, P))

RECURSIVE RunPattern(_, _, _, _)
RunPattern(pat, k, t, P) ==
    IF k > Len(pat) THEN P
    ELSE RunPattern(pat, k + 1, t, ItemEnds(pat[k], t, P))

\* \b in front of a word character: start of text or after a non-word character
WordStarts(t) == {p \in 1..Len(t) : p = 1 \/ t[p - 1] \notin WordChars}

\* re.search(pattern, text): the start positions at which the pattern matches
MatchStarts(pat, t) == {p \in WordStarts(t) : RunPattern(pat, 1, t, {p}) # {}}

Search(pat, t) == MatchStarts(pat, t) # {}

(***************************************************************************)
(* TrainerMatcher: patterns                                                *)
(***************************************************************************)
ApostropheOpt == Class({Apostrophe, CurlyApostrophe}, "opt")
STeam == Lit(<<"s">>) \o Class({Space}, "plus") \o Lit(<<"t", "e", "a", "m">>)
RivalWord == <<"r", "i", "v", "a", "l">>

rival_patterns_apostrophe_required ==
    LET ApostropheOne == Class({Apostrophe, CurlyApostrophe}, "one")
    IN  << Lit(RivalWord) \o Class({Space}, "star") \o Class(Digits, "plus")
               \o ApostropheOne \o STeam,
           Lit(RivalWord) \o ApostropheOne \o STeam,
           Lit(RivalWord \o <<"t">>) \o ApostropheOne \o STeam >>

\* the patterns before the misread variant was added
rival_patterns_without_rivalt ==
    << Lit(RivalWord) \o Class({Space}, "star") \o Class(Digits, "plus")
           \o ApostropheOpt \o STeam,
       Lit(RivalWord) \o ApostropheOpt \o STeam,
       Lit(RivalWord) \o ApostropheOpt \o STeam >>

rival_patterns ==
    << Lit(RivalWord) \o Class({Space}, "star") \o Class(Digits, "plus")
           \o ApostropheOpt \o STeam,                        \* rival 2's team
       Lit(RivalWord) \o ApostropheOpt \o STeam,             \* rival's team
       Lit(RivalWord \o <<"t">>) \o ApostropheOpt \o STeam >> \* rivalt's team

\* exact name + "'s team"
NamePattern(name) == Lit(name) \o ApostropheOpt \o STeam

LanceWord == <<"l", "a", "n", "c", "e">>
ChampionWord == <<"c", "h", "a", "m", "p", "i", "o", "n">>

Versions == {"crystal", "yellow"}

\* The registered spellings of a version: <<spelling, canonical trainer>>.
\* Crystal registers "Champion's Team" for Lance; Yellow has a separate Champion.
trainer_patterns_separate(version) ==
    << <<NamePattern(LanceWord), "Lance">>,
       <<NamePattern(ChampionWord), "Champion">> >>

trainer_patterns(version) ==
    IF version = "crystal"
    THEN << <<NamePattern(LanceWord), "Lance">>,
            <<NamePattern(ChampionWord), "Lance">> >>
    ELSE << <<NamePattern(LanceWord), "Lance">>,
            <<NamePattern(ChampionWord), "Champion">> >>

(***************************************************************************)
(* TrainerMatcher: match                                                   *)
(***************************************************************************)
NoMatch == [name |-> "None", number |-> -1]

DigitValue(c) ==
    CASE c = "0" -> 0 [] c = "1" -> 1 [] c = "2" -> 2 [] c = "3" -> 3 [] c = "4" -> 4
      [] c = "5" -> 5 [] c = "6" -> 6 [] c = "7" -> 7 [] c = "8" -> 8 [] c = "9" -> 9

RECURSIVE ReadNumber(_, _, _)
ReadNumber(t, p, acc) ==
    IF p <= Len(t) /\ t[p] \in Digits
    THEN ReadNumber(t, p + 1, acc * 10 + DigitValue(t[p]))
    ELSE acc

RECURSIVE SkipSpaces(_, _)
SkipSpaces(t, p) == IF p <= Len(t) /\ t[p] = Space THEN SkipSpaces(t, p + 1) ELSE p

Min(S) == CHOOSE x \in S : \A y \in S : x <= y
Max(S) == CHOOSE x \in S : \A y \in S : x >= y

\* the number of the numbered rival matched by rival_patterns[1]
RivalNumber(t) ==
    LET p == Min(MatchStarts(rival_patterns[1], t))
    IN  ReadNumber(t, SkipSpaces(t, p + Len(RivalWord)), 0)

RECURSIVE FirstNamed(_, _, _)
FirstNamed(pats, k, t) ==
    IF k > Len(pats) THEN NoMatch
    ELSE IF Search(pats[k][1], t) THEN [name |-> pats[k][2], number |-> -1]
    ELSE FirstNamed(pats, k + 1, t)

\* match(normalized_text, pattern_set): fixed priority order, first match wins
match(raw_text, version) ==
    LET t == Normalize(raw_text)
        named == FirstNamed(trainer_patterns(version), 1, t)
    IN  IF named # NoMatch THEN named
        ELSE IF Search(rival_patterns[1], t)
             THEN [name |-> "Rival", number |-> RivalNumber(t)]
        ELSE IF Search(rival_patterns[2], t) \/ Search(rival_patterns[3], t)
             THEN [name |-> "Rival", number |-> -1]
        ELSE NoMatch

(***************************************************************************)
(* TextExtractor: OCR method selection of _get_ocr_text_at_frame           *)
(***************************************************************************)
Generations == {"GEN1", "GEN2", "GEN3", "GEN4", "GEN5"}
PatternFamilies == {"team", "leader"}
GameConfigs == [version : Versions, generation : Generations, ocr_pattern : PatternFamilies]

Preprocessed == [preprocess |-> "percentile_threshold", psm |-> 7]
Raw == [preprocess |-> "raw", psm |-> 6]
NoMethod == [preprocess |-> "none", psm |-> 0]

\* the selection before the fix: keyed on the pattern family
ocr_method_by_pattern(config) ==
    IF config.ocr_pattern = "leader" THEN Preprocessed ELSE Raw

ocr_method_for(config) ==
    IF config.generation \in {"GEN1", "GEN2", "GEN3", "GEN4"} THEN Preprocessed ELSE Raw

\* Header texts the recogniser may return.
HeaderNames ==
    { RivalWord, RivalWord \o <<"t">>, RivalWord \o <<"l">>,
      <<"R", "i", "v", "a", "l">>, LanceWord, ChampionWord }
HeaderTexts ==
    { pre \o name \o sp \o num \o apo \o <<"s">> \o gap \o <<"t", "e", "a", "m">> :
        pre \in {<< >>, <<"x">>}, name \in HeaderNames,
        sp \in {<< >>, <<Space>>}, num \in {<< >>, <<"2">>, <<"1", "2">>},
        apo \in {<< >>, <<Apostrophe>>, <<CurlyApostrophe>>},
        gap \in {<< >>, <<Space>>, <<Space, Space>>} }

\* The failure screenshots of Rival 1 and Rival 5: what raw OCR and
\* preprocessed OCR read from them.
RivalSTeam(c) ==
    <<"R", "i", "v", "a", "l", c, Apostrophe, "s", Space, "t", "e", "a", "m">>
FailureShots ==
    { [raw |-> RivalSTeam("l"), pre |-> RivalSTeam("t")],
      [raw |-> RivalSTeam("S"), pre |-> RivalSTeam("5")] }
Shots == FailureShots \cup {[raw |-> t, pre |-> t] : t \in HeaderTexts}

OcrIdle ==
    /\ game_config = [version |-> "crystal", generation |-> "GEN2", ocr_pattern |-> "team"]
    /\ shot = [raw |-> << >>, pre |-> << >>]
    /\ ocr_method = NoMethod
    /\ text = << >>
    /\ identity = NoMatch
    /\ ocr_pc = "frame"

OcrInit ==
    /\ game_config \in GameConfigs
    /\ shot \in Shots
    /\ ocr_method = NoMethod
    /\ text = << >>
    /\ identity = NoMatch
    /\ ocr_pc = "frame"

\* _get_ocr_text_at_frame: select the OCR method and recognise the header
GetOcrText ==
    /\ ocr_pc = "frame"
    /\ ocr_method' = ocr_method_for(game_config)
    /\ text' = IF ocr_method_for(game_config).preprocess = "raw" THEN shot.raw ELSE shot.pre
    /\ ocr_pc' = "ocr"
    /\ UNCHANGED <<game_config, shot, identity, scannerVars, recordingVars, searchVars,
                   runVars, labelVars, hostVars, applyVars>>

\* _check_trainer_at_frame: match the recognised text
CheckTrainer ==
    /\ ocr_pc = "ocr"
    /\ identity' = match(text, game_config.version)
    /\ ocr_pc' = "matched"
    /\ UNCHANGED <<game_config, shot, ocr_method, text, scannerVars, recordingVars, searchVars,
                   runVars, labelVars, hostVars, applyVars>>

(***************************************************************************)
(* The recording: header text and gameplay intensity of every frame        *)
(***************************************************************************)
LanceTeam == <<"L", "a", "n", "c", "e", Apostrophe, "s", Space, "T", "e", "a", "m">>
ChampionTeam ==
    <<"C", "h", "a", "m", "p", "i", "o", "n", Apostrophe, "s", Space, "T", "e", "a", "m">>

\* the header text of frame f when the frames V show the trainer, spelled sp
HeaderText(V, sp, f) ==
    IF f \notin V THEN << >>
    ELSE IF sp = "alternate" /\ f % 2 = 1 THEN ChampionTeam
    ELSE LanceTeam

\* the header of frame f in a recording that also holds a following battle on
\* the frames O, whose header OCR reads as ot
FrameText(V, sp, O, ot, f) == IF f \in O THEN ot ELSE HeaderText(V, sp, f)

\* what OCR reads from the header of frame f
TextAt(f) == FrameText(visible, spelling, other, other_text, f)

\* OCR Region of the GameBoy versions, and the sizes of the decoded frames
OcrCropRect == [x |-> 1548, y |-> 40, width |-> 355, height |-> 34]
FullFrame == [width |-> 1920, height |-> 1080]
SmallFrame == [width |-> 1280, height |-> 720]
FrameSize(S, f) == IF f \in S THEN SmallFrame ELSE FullFrame

CropInside(rect, size) ==
    /\ rect.x >= 0 /\ rect.y >= 0
    /\ rect.x + rect.width <= size.width
    /\ rect.y + rect.height <= size.height

ExtractionError == [name |-> "ExtractionError", number |-> -1]

extract_swallow(size, rect, header) ==
    [error |-> FALSE, text |-> IF CropInside(rect, size) THEN header ELSE << >>]

\* TextExtractor.extract: the text of the OCR crop, or ExtractionError when the
\* crop rectangle lies outside the frame
extract(size, rect, header) ==
    IF CropInside(rect, size)
    THEN [error |-> FALSE, text |-> header]
    ELSE [error |-> TRUE, text |-> << >>]

check_trainer_at_frame_strict(size, rect, header, version) ==
    LET r == extract(size, rect, header)
    IN  IF r.error \/ match(r.text, version) = NoMatch
        THEN ExtractionError
        ELSE match(r.text, version)

\* one OCR probe: extract, then match; the error of extract is passed on
check_trainer_at_frame(size, rect, header, version) ==
    LET r == extract(size, rect, header)
    IN  IF r.error THEN ExtractionError ELSE match(r.text, version)

\* mean intensity (hundredths) of the gameplay crop of frame f
MeanAt(f) ==
    IF f \in black THEN 1
    ELSE IF f \in white THEN 25499
    ELSE 12800

\* _check_trainer_at_frame: is the battle's trainer text present at frame f.
\* The frame source is deterministic: ocr_identity[f] is match(TextAt(f)).
Matched(f) == ocr_identity[f] = trainer

\* the probe of frame f raised ExtractionError
Raised(f) == ocr_identity[f] = ExtractionError

IsTransition(f) == classify(MeanAt(f)) \in {"black", "white"}

(***************************************************************************)
(* BoundarySearch: SAMPLING -> REFINING -> DONE                            *)
(***************************************************************************)
MAX_JUMPS == 3

Directions == {"before", "after"}
Phases == {"SAMPLING", "REFINING", "PHASE1", "PHASE2", "PHASE3_FINE", "PHASE3_COARSE"}
Sign_forward(dir) == IF dir = "before" THEN 1 ELSE 1
Sign_backward(dir) == IF dir = "before" THEN -1 ELSE -1

\* cut-in jumps and scans backwards, cut-out forwards
Sign(dir) == IF dir = "before" THEN -1 ELSE 1

ClampFrame_overrun(dir, last) == IF dir = "before" THEN -1 ELSE last + 1

\* the recording boundary in the search direction
ClampFrame(dir, last) == IF dir = "before" THEN 0 ELSE last

Count(f, dir, phase) == [f EXCEPT ![dir][phase] = @ + 1]

RefineFrom_start(low, dir, start, last_match) == start

\* the matching end of the interval handed to REFINING: the last matching
\* sample; the example flow of the cut-out search names start_frame instead
RefineFrom(low, dir, start, last_match) ==
    IF low = "start_frame" /\ dir = "after" THEN start ELSE last_match

\* SAMPLING: one jump of jump_size frames and one OCR probe
SampleStep ==
    /\ state = "SAMPLING"
    /\ LET next == inside + Sign(direction) * jump_size
       IN  /\ probes[direction]["SAMPLING"] < MAX_JUMPS
           /\ next >= 0 /\ next <= last_frame
           /\ probes' = Count(probes, direction, "SAMPLING")
           /\ ocr_probed' = Append(ocr_probed, next)
           /\ IF Raised(next)
              THEN /\ state' = "FAULT"
                   /\ UNCHANGED <<inside, outside, entered>>
              ELSE IF Matched(next)
              THEN /\ inside' = next
                   /\ UNCHANGED <<outside, state, entered>>
              ELSE /\ outside' = next
                   /\ inside' = RefineFrom(refine_low, direction, detection_frame, inside)
                   /\ state' = "REFINING"
                   /\ entered' = Count(entered, direction, "REFINING")
    /\ UNCHANGED <<direction, scan, last_probed, text_edge, degraded, cut, segment,
                   scannerVars, ocrVars, recordingVars,
                   runVars, labelVars, hostVars, applyVars>>

\* SAMPLING found no non-matching frame: clamp at the recording boundary
SampleClamp ==
    /\ state = "SAMPLING"
    /\ LET next == inside + Sign(direction) * jump_size
       IN  \/ probes[direction]["SAMPLING"] >= MAX_JUMPS
           \/ next < 0
           \/ next > last_frame
    /\ text_edge' = [text_edge EXCEPT ![direction] = ClampFrame(direction, last_frame)]
    /\ degraded' = [degraded EXCEPT ![direction] = TRUE]
    /\ state' = "DONE"
    /\ UNCHANGED <<direction, inside, outside, scan, last_probed, probes, entered,
                   ocr_probed, cut, segment, scannerVars, ocrVars, recordingVars,
                   runVars, labelVars, hostVars, applyVars>>

Midpoint_low(a, b) == IF a < b THEN a ELSE b

Midpoint_linear(a, b) == IF a < b THEN a + 1 ELSE a - 1

Midpoint_high(a, b) == IF a < b THEN b ELSE a

Midpoint(a, b) == (a + b) \div 2

\* REFINING: one probe of the binary search between inside and outside
RefineStep ==
    /\ state = "REFINING"
    /\ outside - inside > 1 \/ inside - outside > 1
    /\ LET mid == Midpoint(inside, outside)
       IN  /\ probes' = Count(probes, direction, "REFINING")
           /\ ocr_probed' = Append(ocr_probed, mid)
           /\ IF Raised(mid)
              THEN state' = "FAULT" /\ UNCHANGED <<inside, outside>>
              ELSE IF Matched(mid)
              THEN inside' = mid /\ UNCHANGED <<outside, state>>
              ELSE outside' = mid /\ UNCHANGED <<inside, state>>
    /\ UNCHANGED <<direction, scan, last_probed, entered, text_edge, degraded,
                   cut, segment, scannerVars, ocrVars, recordingVars,
                   runVars, labelVars, hostVars, applyVars>>

\* REFINING -> DONE: inside and outside are adjacent
RefineDone ==
    /\ state = "REFINING"
    /\ ~(outside - inside > 1 \/ inside - outside > 1)
    /\ text_edge' = [text_edge EXCEPT ![direction] = outside]
    /\ state' = "DONE"
    /\ UNCHANGED <<direction, inside, outside, scan, last_probed, probes, entered,
                   ocr_probed, degraded, cut, segment, scannerVars, ocrVars,
                   recordingVars,
                   runVars, labelVars, hostVars, applyVars>>

(***************************************************************************)
(* TransitionSearch: bounded window, extended window, fallback sweep       *)
(***************************************************************************)
FINE_STEP == 5
COARSE_STEP == 10
\* the fine and the coarse forward window of the fallback sweep, in frames
FineWindow == 6
CoarseWindow == 11

NoCut == [frame |-> -1, status |-> "none"]

\* find_transition(text_boundary_frame, direction) is called
StartTransition ==
    /\ state = "DONE"
    /\ state' = "PHASE1"
    /\ scan' = text_edge[direction]
    /\ entered' = Count(entered, direction, "PHASE1")
    /\ UNCHANGED <<direction, inside, outside, last_probed, probes, ocr_probed,
                   text_edge, degraded, cut, segment, scannerVars, ocrVars,
                   recordingVars,
                   runVars, labelVars, hostVars, applyVars>>

\* classify the frame at scan; return it when it is black or white,
\* otherwise move scan by step
ClassifyScan(phase, step) ==
    /\ probes' = Count(probes, direction, phase)
    /\ last_probed' = scan
    /\ IF IsTransition(scan)
       THEN /\ cut' = [cut EXCEPT ![direction] = [frame |-> scan, status |-> "found"]]
            /\ state' = "RETURNED"
            /\ UNCHANGED scan
       ELSE /\ scan' = scan + step
            /\ UNCHANGED <<cut, state>>
    /\ UNCHANGED <<direction, inside, outside, entered, ocr_probed, text_edge,
                   degraded, segment, scannerVars, ocrVars, recordingVars,
                   runVars, labelVars, hostVars, applyVars>>

InRecording(f) == f >= 0 /\ f <= last_frame

Phase1Open == probes[direction]["PHASE1"] < jump_size /\ InRecording(scan)

Phase1Step_forward ==
    /\ state = "PHASE1"
    /\ Phase1Open
    /\ ClassifyScan("PHASE1", 1)

\* Phase 1: scan up to jump_size frames from the text boundary, backward for
\* cut-in and forward for cut-out
Phase1Step ==
    /\ state = "PHASE1"
    /\ Phase1Open
    /\ ClassifyScan("PHASE1", Sign(direction))

Phase1Fail_extended ==
    /\ state = "PHASE1"
    /\ ~Phase1Open
    /\ state' = "PHASE2"
    /\ entered' = Count(entered, direction, "PHASE2")
    /\ UNCHANGED <<scan, direction, inside, outside, last_probed, probes, ocr_probed,
                   text_edge, degraded, cut, segment, scannerVars, ocrVars,
                   recordingVars, runVars, labelVars, hostVars, applyVars>>

\* Phase 1 found nothing: extended window for cut-out, fallback for cut-in
Phase1Fail ==
    /\ state = "PHASE1"
    /\ ~Phase1Open
    /\ IF direction = "after"
       THEN /\ state' = "PHASE2"
            /\ entered' = Count(entered, direction, "PHASE2")
            /\ UNCHANGED scan
       ELSE /\ state' = "PHASE3_FINE"
            /\ entered' = Count(entered, direction, "PHASE3_FINE")
            /\ scan' = detection_frame
    /\ UNCHANGED <<direction, inside, outside, last_probed, probes, ocr_probed,
                   text_edge, degraded, cut, segment, scannerVars, ocrVars,
                   recordingVars,
                   runVars, labelVars, hostVars, applyVars>>

ExtendedWindow_none(jump) == jump

\* the cut-out scan extends up to JUMP * 2 frames forward
ExtendedWindow(jump) == jump * 2

Phase2Open ==
    /\ probes[direction]["PHASE1"] + probes[direction]["PHASE2"] < ExtendedWindow(jump_size)
    /\ InRecording(scan)

\* Phase 2 (cut-out only): extend the forward scan to 2 x jump_size frames
Phase2Step ==
    /\ state = "PHASE2"
    /\ Phase2Open
    /\ ClassifyScan("PHASE2", 1)

Phase2Fail ==
    /\ state = "PHASE2"
    /\ ~Phase2Open
    /\ state' = "PHASE3_FINE"
    /\ entered' = Count(entered, direction, "PHASE3_FINE")
    /\ scan' = detection_frame
    /\ UNCHANGED <<direction, inside, outside, last_probed, probes, ocr_probed,
                   text_edge, degraded, cut, segment, scannerVars, ocrVars,
                   recordingVars,
                   runVars, labelVars, hostVars, applyVars>>

FineOpen == scan < detection_frame + FineWindow /\ InRecording(scan)

\* Phase 3, fine sweep: FINE_STEP frames at a time, forward from the
\* detection frame
FineSweepStep ==
    /\ state = "PHASE3_FINE"
    /\ FineOpen
    /\ ClassifyScan("PHASE3_FINE", FINE_STEP)

FineSweepEnd ==
    /\ state = "PHASE3_FINE"
    /\ ~FineOpen
    /\ state' = "PHASE3_COARSE"
    /\ entered' = Count(entered, direction, "PHASE3_COARSE")
    /\ scan' = detection_frame
    /\ UNCHANGED <<direction, inside, outside, last_probed, probes, ocr_probed,
                   text_edge, degraded, cut, segment, scannerVars, ocrVars,
                   recordingVars,
                   runVars, labelVars, hostVars, applyVars>>

CoarseOpen_beyond == scan < detection_frame + CoarseWindow

CoarseOpen == scan < detection_frame + CoarseWindow /\ InRecording(scan)

\* Phase 3, coarse sweep: COARSE_STEP frames at a time
CoarseSweepStep ==
    /\ state = "PHASE3_COARSE"
    /\ CoarseOpen
    /\ ClassifyScan("PHASE3_COARSE", COARSE_STEP)

BestEffort_found(next, window_end, probed, last) ==
    IF next < window_end
    THEN [frame |-> last, status |-> "found"]
    ELSE [frame |-> probed, status |-> "found"]

\* the result when every phase failed: the last frame when the sweep reached
\* the end of the recording before the end of its window, otherwise the last
\* probed frame; best effort
BestEffort(next, window_end, probed, last) ==
    IF next < window_end
    THEN [frame |-> last, status |-> "clamped"]
    ELSE [frame |-> probed, status |-> "not_found"]

CoarseSweepEnd ==
    /\ state = "PHASE3_COARSE"
    /\ ~CoarseOpen
    /\ cut' = [cut EXCEPT ![direction] = BestEffort(scan, detection_frame + CoarseWindow, last_probed, last_frame)]
    /\ state' = "RETURNED"
    /\ UNCHANGED <<direction, inside, outside, scan, last_probed, probes, entered,
                   ocr_probed, text_edge, degraded, segment, scannerVars, ocrVars,
                   recordingVars,
                   runVars, labelVars, hostVars, applyVars>>

(***************************************************************************)
(* The caller: cut-in search, then cut-out search, then the segment        *)
(***************************************************************************)
NoSegment ==
    [committed |-> FALSE, cut_in_frame |-> -1, text_edge_frame_before |-> -1,
     detection_frame |-> -1, text_edge_frame_after |-> -1, cut_out_frame |-> -1,
     trainer_identity |-> NoMatch, best_effort |-> FALSE]

\* the two readings of the cut-out binary search: between the last frame with
\* text and the current frame, or between start_frame and the current frame
RefineLows == {"last_match", "start_frame"}

\* the cut-in search returned: run the cut-out search from the detection frame
StartCutOut ==
    /\ state = "RETURNED"
    /\ direction = "before"
    /\ direction' = "after"
    /\ state' = "SAMPLING"
    /\ inside' = detection_frame
    /\ outside' = -1
    /\ ocr_probed' = << >>
    /\ entered' = Count(entered, "after", "SAMPLING")
    /\ refine_low' \in RefineLows
    /\ UNCHANGED <<scan, last_probed, probes, text_edge, degraded, cut, segment,
                   first_run, previous, scannerVars, ocrVars, recordingVars,
                   labelVars, hostVars, applyVars>>

\* both boundaries are known: emit the battle segment
CommitSegment ==
    /\ state = "RETURNED"
    /\ direction = "after"
    /\ segment' =
         [committed |-> TRUE,
          cut_in_frame |-> cut["before"].frame,
          text_edge_frame_before |-> text_edge["before"],
          detection_frame |-> detection_frame,
          text_edge_frame_after |-> text_edge["after"],
          cut_out_frame |-> cut["after"].frame,
          trainer_identity |-> trainer,
          best_effort |-> cut["before"].status # "found" \/ cut["after"].status # "found"]
    /\ state' = "COMMITTED"
    /\ UNCHANGED <<direction, inside, outside, scan, last_probed, probes, entered,
                   ocr_probed, text_edge, degraded, cut, scannerVars, ocrVars,
                   recordingVars,
                   runVars, labelVars, hostVars, applyVars>>

(***************************************************************************)
(* Recordings                                                              *)
(***************************************************************************)
\* last frame of the short recordings, which have any pattern of text frames
ShortLast == 6
\* last frame of the long recordings, which hold one battle
LongLast == 11
\* largest number of frames of the battle of a long recording
MaxBattle == 4
MaxJump == 3
\* frames between the white flash and the black frame that follows it
FlashGap == 2

AtMostOne(S) == {{}} \cup {{f} : f \in S}

Recording(last, d, V, sp, B, W) ==
    [last_frame |-> last, detection_frame |-> d, visible |-> V, spelling |-> sp,
     black |-> B, white |-> W, small |-> {}, other |-> {}, other_text |-> << >>]

\* a short recording: any pattern of text frames around the detection frame,
\* at most one black frame
ShortRecordings ==
    {Recording(ShortLast, d, V \cup {d}, "lance", B, {}) :
        d \in 0..ShortLast, V \in SUBSET (0..ShortLast), B \in AtMostOne(0..ShortLast)}

\* the battles <<first text frame, last text frame, detection frame>>
Battles(last) ==
    {x \in (0..last) \X (0..last) \X (0..last) :
        x[1] <= x[3] /\ x[3] <= x[2] /\ x[2] - x[1] < MaxBattle}

\* <<black frames, white frames>>: no transition, one black frame, one white
\* frame, or a white frame, a graphic and then a black frame
Transitions(last) ==
    {<<{}, {}>>}
       \cup {<<{k}, {}>> : k \in 0..last}
       \cup {<<{}, {k}>> : k \in 0..last}
       \cup {<<{k}, {k - FlashGap}>> : k \in FlashGap..last}

\* a long recording: one battle of at most MaxBattle frames, spelled one way
\* or alternating
LongRecordings ==
    {Recording(LongLast, x[3], x[1]..x[2], sp, t[1], t[2]) :
        x \in Battles(LongLast), sp \in {"lance", "alternate"},
        t \in Transitions(LongLast)}

\* find_text_boundary has not been run a second time
NoRun ==
    [ran |-> FALSE, direction |-> "none", probed |-> << >>, boundary |-> -1,
     degraded |-> FALSE]

\* no battle detected yet
SearchIdle ==
    /\ last_frame = 0
    /\ visible = {}
    /\ spelling = "lance"
    /\ black = {}
    /\ white = {}
    /\ detection_frame = 0
    /\ jump_size = 1
    /\ trainer = NoMatch
    /\ ocr_identity = [f \in 0..0 |-> NoMatch]
    /\ small = {}
    /\ other = {}
    /\ other_text = << >>
    /\ refine_low = "last_match"
    /\ first_run = NoRun
    /\ previous = NoSegment
    /\ direction = "before"
    /\ state = "IDLE"
    /\ inside = -1
    /\ outside = -1
    /\ scan = -1
    /\ last_probed = -1
    /\ probes = [d \in Directions |-> [p \in Phases |-> 0]]
    /\ entered = [d \in Directions |-> [p \in Phases |-> 0]]
    /\ ocr_probed = << >>
    /\ text_edge = [d \in Directions |-> -1]
    /\ degraded = [d \in Directions |-> FALSE]
    /\ cut = [d \in Directions |-> NoCut]
    /\ segment = NoSegment

\* the driver detects the trainer of a battle of one of the recordings recs at
\* detection_frame and starts the cut-in search there
Detect(recs) ==
    /\ state = "IDLE"
    /\ \E rec \in recs, jump \in 1..MaxJump :
          /\ last_frame' = rec.last_frame
          /\ visible' = rec.visible
          /\ spelling' = rec.spelling
          /\ black' = rec.black
          /\ white' = rec.white
          /\ small' = rec.small
          /\ other' = rec.other
          /\ other_text' = rec.other_text
          /\ detection_frame' = rec.detection_frame
          /\ jump_size' = jump
          /\ ocr_identity' =
                [f \in 0..rec.last_frame |->
                    check_trainer_at_frame(
                        FrameSize(rec.small, f), OcrCropRect,
                        FrameText(rec.visible, rec.spelling, rec.other, rec.other_text, f),
                        game_config.version)]
          /\ trainer' = match(HeaderText(rec.visible, rec.spelling, rec.detection_frame),
                              game_config.version)
          /\ inside' = rec.detection_frame
    /\ direction' = "before"
    /\ state' = "SAMPLING"
    /\ entered' = Count(entered, "before", "SAMPLING")
    /\ UNCHANGED <<outside, scan, last_probed, probes, ocr_probed, text_edge, degraded,
                   cut, segment, scannerVars, ocrVars,
                   runVars, labelVars, hostVars, applyVars>>

\* the recordings of one battle
DetectBattle == Detect(ShortRecordings \cup LongRecordings)

\* <<first frame, last frame>>
Intervals(last) == {y \in (0..last) \X (0..last) : y[1] <= y[2]}

AtMostTwo(S) == {B \in SUBSET S : Cardinality(B) <= 2}

\* a recording of two battles: Lance, then a battle whose header OCR reads as
\* "Rival5's team" (a Rival battle) or as "Rivall's team" (no trainer); up to
\* two black frames outside the battles
PairRecordings ==
    {[Recording(ShortLast, p[1][3], p[1][1]..p[1][2], "lance", p[3], {})
        EXCEPT !.other = p[2][1]..p[2][2], !.other_text = RivalSTeam(c)] :
        p \in {q \in Battles(ShortLast) \X Intervals(ShortLast) \X AtMostTwo(0..ShortLast) :
                  /\ q[1][2] < q[2][1]
                  /\ q[3] \cap (q[1][1]..q[2][2]) \subseteq (q[1][2] + 1)..(q[2][1] - 1)},
        c \in {"5", "l"}}

\* a recording with one frame decoded at a size that does not hold the OCR crop
NarrowRecordings ==
    {[Recording(ShortLast, p[1], V \cup {p[1]}, "lance", {}, {}) EXCEPT !.small = {p[2]}] :
        p \in {q \in (0..ShortLast) \X (0..ShortLast) : q[1] # q[2]},
        V \in SUBSET (0..ShortLast)}

\* the recordings of two battles and of frames of another size
DetectBattles == Detect(PairRecordings \cup NarrowRecordings)

\* the segment of the first battle is committed: the driver goes on and
\* detects the trainer of the following battle
DetectNextBattle ==
    /\ state = "COMMITTED"
    /\ previous = NoSegment
    /\ \E d \in other :
          /\ ocr_identity[d] \notin {NoMatch, ExtractionError}
          /\ detection_frame' = d
          /\ trainer' = ocr_identity[d]
          /\ inside' = d
    /\ previous' = segment
    /\ segment' = NoSegment
    /\ first_run' = NoRun
    /\ direction' = "before"
    /\ state' = "SAMPLING"
    /\ outside' = -1
    /\ scan' = -1
    /\ last_probed' = -1
    /\ probes' = [d \in Directions |-> [p \in Phases |-> 0]]
    /\ entered' = Count([d \in Directions |-> [p \in Phases |-> 0]], "before", "SAMPLING")
    /\ ocr_probed' = << >>
    /\ text_edge' = [d \in Directions |-> -1]
    /\ degraded' = [d \in Directions |-> FALSE]
    /\ cut' = [d \in Directions |-> NoCut]
    /\ UNCHANGED <<refine_low, last_frame, visible, spelling, black, white, small, other,
                   other_text, jump_size, ocr_identity, scannerVars, ocrVars, labelVars, hostVars, applyVars>>

ResetSearch_kept(p, dir) == p

\* a run of find_text_boundary starts with no probe counted
ResetSearch(p, dir) == [p EXCEPT ![dir]["SAMPLING"] = 0, ![dir]["REFINING"] = 0]

\* find_text_boundary is run a second time with the same start_frame,
\* direction and jump_size
FindTextBoundaryAgain ==
    /\ state = "DONE"
    /\ first_run.direction # direction
    /\ first_run' =
          [ran |-> TRUE, direction |-> direction, probed |-> ocr_probed,
           boundary |-> text_edge[direction], degraded |-> degraded[direction]]
    /\ state' = "SAMPLING"
    /\ inside' = detection_frame
    /\ outside' = -1
    /\ ocr_probed' = << >>
    /\ probes' = ResetSearch(probes, direction)
    /\ text_edge' = [text_edge EXCEPT ![direction] = -1]
    /\ degraded' = [degraded EXCEPT ![direction] = FALSE]
    /\ UNCHANGED <<direction, scan, last_probed, entered, cut, segment, refine_low,
                   previous, scannerVars, ocrVars, recordingVars, labelVars, hostVars, applyVars>>

(***************************************************************************)
(* Label applicator: parseLabelsJSON                                       *)
(***************************************************************************)
\* a JavaScript scalar: undefined, null, a string or a number
Undefined == [type |-> "undefined", val |-> ""]
NullValue == [type |-> "null", val |-> ""]
Str(v) == [type |-> "string", val |-> v]
Num(v) == [type |-> "number", val |-> v]

\* undefined, null, "" and 0 are falsy
Truthy(v) ==
    ~ \/ v.type \in {"undefined", "null"}
      \/ v.type = "string" /\ v.val = ""
      \/ v.type = "number" /\ v.val = "0"

\* an element of an array: null, or an object with the properties read by
\* parseLabelsJSON; a missing property is undefined
Entry(lab, st, nm, secs, tr) ==
    [kind |-> "object", label |-> lab, start |-> st, name |-> nm,
     start_seconds |-> secs, trainer |-> tr]
NullEntry == [Entry(Undefined, Undefined, Undefined, Undefined, Undefined) EXCEPT !.kind = "null"]
\* a character of a string: it has none of the properties
CharEntry == Entry(Undefined, Undefined, Undefined, Undefined, Undefined)

\* what the text of the file evaluates to: kind "unparsable" when eval throws,
\* otherwise null, a number, a string, an array or an object; items are the
\* elements of an array or the characters of a string, labels_kind and labels
\* the property "labels" of an object
Value(k, its, lk, ls) == [kind |-> k, items |-> its, labels_kind |-> lk, labels |-> ls]
NoContent == Value("unparsable", << >>, "undefined", << >>)

NoResult == [error |-> FALSE, thrown |-> FALSE, labels |-> << >>, format |-> "none"]
ErrorResult == [error |-> TRUE, thrown |-> FALSE, labels |-> << >>, format |-> "none"]
\* a TypeError leaves parseLabelsJSON: nothing is returned
Thrown == [error |-> FALSE, thrown |-> TRUE, labels |-> << >>, format |-> "none"]
LabelsResult(ls, fmt) == [error |-> FALSE, thrown |-> FALSE, labels |-> ls, format |-> fmt]

Label(secs, lab, tr) == [start_seconds |-> secs, label |-> lab, trainer |-> tr]

\* v || "Unknown"
OrUnknown(v) == IF Truthy(v) THEN v ELSE Str("Unknown")

\* the entries of a Timebolt array that have a label, in order
RECURSIVE TimeboltLabels(_, _)
TimeboltLabels(items, i) ==
    IF i > Len(items) THEN << >>
    ELSE IF Truthy(items[i].label)
         THEN <<Label(items[i].start, items[i].label, OrUnknown(items[i].name))>>
                 \o TimeboltLabels(items, i + 1)
         ELSE TimeboltLabels(items, i + 1)

\* reading a property of null throws
HasNull(items) == \E i \in 1..Len(items) : items[i].kind = "null"

parseLabelsJSON(data) ==
    IF data.kind = "unparsable" THEN ErrorResult
    ELSE IF data.kind = "null" THEN Thrown
    ELSE IF data.kind = "object" /\ data.labels_kind = "array" /\ Len(data.labels) > 0
    THEN IF HasNull(data.labels) THEN Thrown
         ELSE LabelsResult(
                 [i \in 1..Len(data.labels) |->
                     Label(data.labels[i].start_seconds, data.labels[i].label,
                           OrUnknown(data.labels[i].trainer))],
                 "automation_blocks")
    ELSE IF data.kind \in {"array", "string"} /\ Len(data.items) > 0
    THEN IF HasNull(data.items) THEN Thrown
         ELSE LabelsResult(TimeboltLabels(data.items, 1), "timebolt")
    ELSE ErrorResult

\* no file read yet
LabelsIdle == content = NoContent /\ parsed = NoResult /\ label_pc = "file"

\* longest array of a file
MaxLabels == 2

LabelValues == {Undefined, Str(""), Str("Rival")}
StartValues == {Undefined, Num("12")}
TrainerValues == {Undefined, Str(""), Str("Falkner")}
TimeboltEntries ==
    {Entry(lab, st, nm, Undefined, Undefined) :
        lab \in LabelValues, st \in StartValues, nm \in TrainerValues}
AutomationEntries ==
    {Entry(lab, Undefined, Undefined, secs, tr) :
        lab \in LabelValues, secs \in StartValues, tr \in TrainerValues}
Arrays(S) == UNION {[1..n -> S] : n \in 0..MaxLabels}
Contents ==
    {NoContent, Value("null", << >>, "undefined", << >>),
     Value("number", << >>, "undefined", << >>),
     Value("object", << >>, "undefined", << >>)}
       \cup {Value("string", its, "undefined", << >>) : its \in Arrays({CharEntry})}
       \cup {Value("array", its, "undefined", << >>) :
                its \in Arrays(TimeboltEntries \cup {NullEntry})}
       \cup {Value("object", << >>, "array", ls) :
                ls \in Arrays(AutomationEntries \cup {NullEntry})}

\* the file chosen in the dialog has been read
LabelsInit == content \in Contents /\ parsed = NoResult /\ label_pc = "file"

\* var parsed = parseLabelsJSON(content)
ParseLabels ==
    /\ label_pc = "file"
    /\ parsed' = parseLabelsJSON(content)
    /\ label_pc' = IF parseLabelsJSON(content).thrown THEN "script_error" ELSE "parsed"
    /\ UNCHANGED <<content, scannerVars, ocrVars, recordingVars, searchVars, runVars,
                   hostVars, applyVars>>

\* main: alert the error, alert that no segment is labelled, or apply
ReportLabels ==
    /\ label_pc = "parsed"
    /\ label_pc' = IF parsed.error THEN "error_alert"
                   ELSE IF Len(parsed.labels) = 0 THEN "empty_alert"
                   ELSE "apply"
    /\ UNCHANGED <<content, parsed, scannerVars, ocrVars, recordingVars, searchVars,
                   runVars, hostVars, applyVars>>

(***************************************************************************)
(* The host application and the scripts that select and label clips        *)
(***************************************************************************)
\* Times are counted in half seconds and ticks in units of 10^6 ticks:
\* 254016000000 ticks per second, OFFSET_SECONDS = 0.5.
TICKS_PER_SECOND == 254016
OFFSET_SECONDS == 1

secondsToTicks(s) == (s * TICKS_PER_SECOND) \div 2

\* a JavaScript number that holds a time, or NaN
Seconds(h) == [nan |-> FALSE, halves |-> h]
NaN == [nan |-> TRUE, halves |-> 0]

\* video tracks of the sequence, clips of a track, end of the timeline
NumTracks == 2
MaxClips == 2
MaxHalf == 4
\* number of label commands of the host
LabelCommands == 3

NoClip == <<0, 0>>
AllClipIds == (1..NumTracks) \X (1..MaxClips)
ClipIds(tr) == {id \in AllClipIds : id[2] <= Len(tr[id[1]])}
ClipAt(tr, id) == tr[id[1]][id[2]]

\* clips[c].setSelected(false, true) inside try/catch: a clip whose
\* setSelected throws stays as it is
clearSelection(tr, sel) == {id \in sel : ClipAt(tr, id).locked}

\* clip.start.ticks <= ticks && clip.end.ticks > ticks
Contains(clip, ticks) ==
    secondsToTicks(clip.start) <= ticks /\ secondsToTicks(clip.end) > ticks

\* the clip the loops reach first: lowest track, then lowest clip index
FirstClip(S) ==
    CHOOSE id \in S :
        \A o \in S : id[1] < o[1] \/ (id[1] = o[1] /\ id[2] <= o[2])

SelectResult(ok, thrown, clip, sel) ==
    [success |-> ok, thrown |-> thrown, clip |-> clip, selected |-> sel]

\* every comparison with NaN is false
HitsAt(tr, ids, seconds) ==
    {id \in ids :
        /\ ~seconds.nan
        /\ Contains(ClipAt(tr, id), secondsToTicks(seconds.halves + OFFSET_SECONDS))}

\* selectClipAtTime: clear the selection, select the first clip of any video
\* track that contains the playhead
selectClipAtTime(tr, sel, seconds) ==
    LET cleared == clearSelection(tr, sel)
        hits == HitsAt(tr, ClipIds(tr), seconds)
    IN  IF hits = {} THEN SelectResult(FALSE, FALSE, NoClip, cleared)
        ELSE IF ClipAt(tr, FirstClip(hits)).locked
        THEN SelectResult(FALSE, FALSE, FirstClip(hits), cleared)
        ELSE SelectResult(TRUE, FALSE, FirstClip(hits), cleared \cup {FirstClip(hits)})

\* seq.setPlayerPosition(ticks.toString()); "NaN" is no position
PlayerPosition(ph, seconds) ==
    IF seconds.nan THEN ph ELSE secondsToTicks(seconds.halves + OFFSET_SECONDS)

\* the panel's processBattle: only videoTracks[0] is searched, and
\* setSelected(true, true) is outside any try
processBattle(tr, sel, seconds) ==
    LET cleared == clearSelection(tr, sel)
        hits == HitsAt(tr, {id \in ClipIds(tr) : id[1] = 1}, seconds)
    IN  IF hits = {} THEN SelectResult(FALSE, FALSE, NoClip, cleared)
        ELSE IF ClipAt(tr, FirstClip(hits)).locked
        THEN SelectResult(FALSE, TRUE, FirstClip(hits), cleared)
        ELSE SelectResult(TRUE, FALSE, FirstClip(hits), cleared \cup {FirstClip(hits)})

\* the host's label commands are the ids base .. base + LabelCommands - 1;
\* base 0: the host has none
CommandBases == {0, 3000, 3100, 41000}
CommandExists(base, id) == base > 0 /\ id >= base /\ id < base + LabelCommands

\* app.executeCommand(id): a label command labels the selected clips; an id
\* that is no command throws
executeCommand(base, lab, sel, id) ==
    IF CommandExists(base, id)
    THEN [c \in AllClipIds |-> IF c \in sel THEN id - base ELSE lab[c]]
    ELSE lab

RECURSIVE executeCommands(_, _, _, _)
executeCommands(base, lab, sel, ids) ==
    IF ids = << >> THEN lab
    ELSE executeCommands(base, executeCommand(base, lab, sel, Head(ids)), sel, Tail(ids))

\* executeLabelCommand: 3100 + labelIndex, then the ranges until one succeeds
LabelRanges == <<41000, 42000, 43000, 3000, 3100, 3200>>
executeLabelCommand(base, lab, sel, labelIndex) ==
    LET first == executeCommand(base, lab, sel, 3100 + labelIndex)
        ok == {i \in 1..Len(LabelRanges) : CommandExists(base, LabelRanges[i] + labelIndex)}
    IN  IF ok = {} THEN first
        ELSE executeCommand(base, first, sel, LabelRanges[Min(ok)] + labelIndex)

\* findLabelCommands: app.executeCommand(i) for every id of the test ranges
testRanges == <<<<3100, 3120>>, <<41000, 41020>>, <<42000, 42020>>, <<43000, 43020>>>>
RangeIds(r) == [k \in 1..(r[2] - r[1]) |-> r[1] + k - 1]
TestedIds == RangeIds(testRanges[1]) \o RangeIds(testRanges[2])
                \o RangeIds(testRanges[3]) \o RangeIds(testRanges[4])
\* found: the ids whose executeCommand did not throw, which are the ids executed
FoundCommands(base) == SelectSeq(TestedIds, LAMBDA id : CommandExists(base, id))
findLabelCommands(base, lab, sel) == executeCommands(base, lab, sel, FoundCommands(base))

NoCall ==
    [fn |-> "none", seconds |-> NaN, before |-> {}, labelled |-> << >>,
     result |-> SelectResult(FALSE, FALSE, NoClip, {}), found |-> << >>]

HostIdle ==
    /\ tracks = [t \in 1..NumTracks |-> << >>]
    /\ selected = {}
    /\ playhead = 0
    /\ clip_label = [c \in AllClipIds |-> -1]
    /\ command_base = 0
    /\ call = NoCall

\* the clips of one track: in time order, not overlapping, at most one of
\* them with a setSelected that throws
ClipSet ==
    {[start |-> a, end |-> b, locked |-> l] :
        a \in 0..MaxHalf, b \in 0..MaxHalf, l \in BOOLEAN}
TrackClips ==
    {cs \in UNION {[1..n -> {c \in ClipSet : c.start < c.end}] : n \in 0..MaxClips} :
        \A i \in 1..(Len(cs) - 1) : cs[i].end <= cs[i + 1].start}
Timelines ==
    {tl \in [1..NumTracks -> TrackClips] :
        Cardinality({id \in ClipIds(tl) : ClipAt(tl, id).locked}) <= 1}

\* the times the scripts are called with
CallTimes == {NaN} \cup {Seconds(2 * k) : k \in 0..(MaxHalf \div 2)}

HostInit ==
    /\ tracks \in Timelines
    /\ selected \in AtMostOne(ClipIds(tracks))
    /\ playhead = 0
    /\ clip_label = [c \in AllClipIds |-> -1]
    /\ command_base \in CommandBases
    /\ call = NoCall

\* the label applicator calls selectClipAtTime(seq, seconds)
SelectClipAtTime ==
    /\ call = NoCall
    /\ \E seconds \in CallTimes :
          LET r == selectClipAtTime(tracks, selected, seconds)
          IN  /\ selected' = r.selected
              /\ playhead' = PlayerPosition(playhead, seconds)
              /\ call' = [fn |-> "selectClipAtTime", seconds |-> seconds,
                          before |-> selected, labelled |-> clip_label,
                          result |-> r, found |-> << >>]
    /\ UNCHANGED <<tracks, clip_label, command_base, scannerVars, ocrVars,
                   recordingVars, searchVars, runVars, labelVars, applyVars>>

\* the panel calls processBattle(startSeconds, labelName, labelIndex)
ProcessBattle ==
    /\ call = NoCall
    /\ \E seconds \in CallTimes \ {NaN}, labelIndex \in 0..(LabelCommands - 1) :
          LET r == processBattle(tracks, selected, seconds)
          IN  /\ selected' = r.selected
              /\ playhead' = PlayerPosition(playhead, seconds)
              /\ clip_label' = IF r.success
                               THEN executeLabelCommand(command_base, clip_label,
                                                        r.selected, labelIndex)
                               ELSE clip_label
              /\ call' = [fn |-> "processBattle", seconds |-> seconds,
                          before |-> selected, labelled |-> clip_label,
                          result |-> r, found |-> << >>]
    /\ UNCHANGED <<tracks, command_base, scannerVars, ocrVars,
                   recordingVars, searchVars, runVars, labelVars, applyVars>>

\* the panel calls findLabelCommands()
FindLabelCommands ==
    /\ call = NoCall
    /\ clip_label' = findLabelCommands(command_base, clip_label, selected)
    /\ call' = [fn |-> "findLabelCommands", seconds |-> NaN,
                before |-> selected, labelled |-> clip_label,
                result |-> SelectResult(FALSE, FALSE, NoClip, selected),
                found |-> FoundCommands(command_base)]
    /\ UNCHANGED <<tracks, selected, playhead, command_base, scannerVars, ocrVars,
                   recordingVars, searchVars, runVars, labelVars, applyVars>>

(***************************************************************************)
(* Label applicator: automatic mode and export mode                        *)
(***************************************************************************)
\* label names to SendKeys strings, in the order of the object literal
LABEL_SHORTCUTS ==
    <<
       [key |-> <<"R", "i", "v", "a", "l">>, keys |-> "^+1"],
       [key |-> <<"G", "y", "m">>, keys |-> "^+2"],
       [key |-> <<"E", "4">>, keys |-> "^+3"],
       [key |-> <<"C", "h", "a", "m", "p", "i", "o", "n">>, keys |-> "^+4"],
       [key |-> <<"P", "o", "s", "t", "g", "a", "m", "e">>, keys |-> "^+5"],
       [key |-> <<"E", "n", "e", "m", "y", Space, "L", "e", "a", "d", "e", "r">>, keys |-> "^+6"],
       [key |-> <<"E", "n", "e", "m", "y", Space, "B", "o", "s", "s">>, keys |-> "^+7"],
       [key |-> <<"C", "e", "r", "u", "l", "e", "a", "n">>, keys |-> "^+8"],
       [key |-> <<"C", "a", "r", "i", "b", "b", "e", "a", "n">>, keys |-> "^+9"],
       [key |-> <<"L", "a", "v", "e", "n", "d", "e", "r">>, keys |-> "^+0"],
       [key |-> <<"M", "a", "g", "e", "n", "t", "a">>, keys |-> "^+{F1}"],
       [key |-> <<"P", "u", "r", "p", "l", "e">>, keys |-> "^+{F2}"],
       [key |-> <<"B", "l", "u", "e">>, keys |-> "^+{F3}"],
       [key |-> <<"G", "r", "e", "e", "n">>, keys |-> "^+{F4}"],
       [key |-> <<"Y", "e", "l", "l", "o", "w">>, keys |-> "^+{F5}"],
       [key |-> <<"B", "r", "o", "w", "n">>, keys |-> "^+{F6}"]
    >>

UpperAZ == <<"A", "B", "C", "D", "E", "F", "G", "H", "I", "J", "K", "L", "M", "N", "O", "P", "Q", "R", "S", "T", "U", "V", "W", "X", "Y", "Z">>
LowerAZ == <<"a", "b", "c", "d", "e", "f", "g", "h", "i", "j", "k", "l", "m", "n", "o", "p", "q", "r", "s", "t", "u", "v", "w", "x", "y", "z">>
LowerChar(c) ==
    IF \E i \in 1..Len(UpperAZ) : UpperAZ[i] = c
    THEN LowerAZ[CHOOSE i \in 1..Len(UpperAZ) : UpperAZ[i] = c]
    ELSE c
toLowerCase(t) == [i \in 1..Len(t) |-> LowerChar(t[i])]

\* the value of entry.label: a string, or undefined
LabelName(t) == [type |-> "string", chars |-> t]
Missing == [type |-> "undefined", chars |-> << >>]

\* LABEL_SHORTCUTS[labelName]; "" stands for undefined
ExactShortcut(labelName) ==
    LET hit == {i \in 1..Len(LABEL_SHORTCUTS) :
                  labelName.type = "string" /\ LABEL_SHORTCUTS[i].key = labelName.chars}
    IN  IF hit = {} THEN "" ELSE LABEL_SHORTCUTS[Min(hit)].keys

\* the shortcut applyLabelViaShortcut sends: the exact key, else the first
\* key equal in lower case; labelName.toLowerCase() throws when labelName
\* is no string
applyLabelViaShortcut(labelName) ==
    LET hit == {i \in 1..Len(LABEL_SHORTCUTS) :
                  toLowerCase(LABEL_SHORTCUTS[i].key) = toLowerCase(labelName.chars)}
    IN  IF ExactShortcut(labelName) # ""
        THEN [thrown |-> FALSE, shortcut |-> ExactShortcut(labelName)]
        ELSE IF labelName.type # "string" THEN [thrown |-> TRUE, shortcut |-> ""]
        ELSE IF hit = {} THEN [thrown |-> FALSE, shortcut |-> ""]
        ELSE [thrown |-> FALSE, shortcut |-> LABEL_SHORTCUTS[Min(hit)].keys]

\* the shortcut exportForPython writes: LABEL_SHORTCUTS[entry.label] || "^+8"
ExportShortcut(labelName) ==
    IF ExactShortcut(labelName) # "" THEN ExactShortcut(labelName) ELSE "^+8"

\* undefined + 0.5 is NaN
PlusOffset(seconds) ==
    IF seconds.nan THEN NaN ELSE Seconds(seconds.halves + OFFSET_SECONDS)

exportForPython(ls) ==
    [i \in 1..Len(ls) |->
        [start_seconds |-> PlusOffset(ls[i].start_seconds), label |-> ls[i].label,
         trainer |-> ls[i].trainer, shortcut |-> ExportShortcut(ls[i].label)]]

ApplyIdle ==
    /\ labels = << >>
    /\ mode = "none"
    /\ loop_i = 0
    /\ successCount = 0
    /\ failCount = 0
    /\ details = << >>
    /\ keys_sent = << >>
    /\ exported = << >>
    /\ apply_pc = "idle"

\* the lists parseLabelsJSON can return: start_seconds a number or undefined,
\* label a string or undefined
LabelNames ==
    {Missing, LabelName(<<"R", "i", "v", "a", "l">>), LabelName(<<"r", "i", "v", "a", "l">>),
     LabelName(<<"G", "y", "m">>), LabelName(<<"F", "o", "o">>)}
LabelEntries ==
    {[start_seconds |-> secs, label |-> lab, trainer |-> "Falkner"] :
        secs \in {NaN, Seconds(0), Seconds(2)}, lab \in LabelNames}
LabelLists == UNION {[1..n -> LabelEntries] : n \in 1..MaxLabels}

\* a sequence is open, a mode was chosen and the file held labels
ApplyInit ==
    /\ tracks \in {tl \in Timelines : tl[NumTracks] = << >>}
    /\ selected = {}
    /\ playhead = 0
    /\ clip_label = [c \in AllClipIds |-> -1]
    /\ command_base = 0
    /\ call = NoCall
    /\ labels \in LabelLists
    /\ mode \in {"auto", "export"}
    /\ loop_i = 0
    /\ successCount = 0
    /\ failCount = 0
    /\ details = << >>
    /\ keys_sent = << >>
    /\ exported = << >>
    /\ apply_pc = "loop"

Line(ok, trainer_name, why) == [ok |-> ok, trainer |-> trainer_name, text |-> why]

\* export mode: exportForPython(labels, exportPath)
ExportForPython ==
    /\ apply_pc = "loop"
    /\ mode = "export"
    /\ exported' = exportForPython(labels)
    /\ apply_pc' = "exported"
    /\ UNCHANGED <<labels, mode, loop_i, successCount, failCount, details, keys_sent,
                   scannerVars, ocrVars, recordingVars, searchVars, runVars, labelVars,
                   hostVars>>

\* automatic mode: one pass of the loop over labels
AutoStep ==
    /\ apply_pc = "loop"
    /\ mode = "auto"
    /\ loop_i < Len(labels)
    /\ LET entry == labels[loop_i + 1]
           r == selectClipAtTime(tracks, selected, entry.start_seconds)
           a == applyLabelViaShortcut(entry.label)
       IN  /\ selected' = r.selected
           /\ playhead' = PlayerPosition(playhead, entry.start_seconds)
           /\ call' = [fn |-> "selectClipAtTime", seconds |-> entry.start_seconds,
                       before |-> selected, labelled |-> clip_label,
                       result |-> r, found |-> << >>]
           /\ IF ~r.success
              THEN /\ failCount' = failCount + 1
                   /\ details' = Append(details, Line(FALSE, entry.trainer,
                                        IF r.clip = NoClip THEN "No clip" ELSE "setSelected"))
                   /\ loop_i' = loop_i + 1
                   /\ UNCHANGED <<successCount, keys_sent, apply_pc>>
              ELSE IF a.thrown
              THEN /\ apply_pc' = "script_error"
                   /\ UNCHANGED <<loop_i, successCount, failCount, details, keys_sent>>
              ELSE IF a.shortcut = ""
              THEN /\ failCount' = failCount + 1
                   /\ details' = Append(details, Line(FALSE, entry.trainer, "No shortcut"))
                   /\ loop_i' = loop_i + 1
                   /\ UNCHANGED <<successCount, keys_sent, apply_pc>>
              ELSE \E focused, keySent \in BOOLEAN :
                   /\ keys_sent' = keys_sent \o (IF focused THEN <<"+3">> ELSE << >>)
                                             \o (IF keySent THEN <<a.shortcut>> ELSE << >>)
                   /\ successCount' = IF keySent THEN successCount + 1 ELSE successCount
                   /\ failCount' = IF keySent THEN failCount ELSE failCount + 1
                   /\ details' = Append(details,
                                    IF keySent THEN Line(TRUE, entry.trainer, "label")
                                    ELSE Line(FALSE, entry.trainer, "Failed to send shortcut"))
                   /\ loop_i' = loop_i + 1
                   /\ UNCHANGED apply_pc
    /\ UNCHANGED <<tracks, clip_label, command_base, labels, mode, exported,
                   scannerVars, ocrVars, recordingVars, searchVars, runVars, labelVars>>

\* the loop is over: alert(report)
AutoReport ==
    /\ apply_pc = "loop"
    /\ mode = "auto"
    /\ loop_i = Len(labels)
    /\ apply_pc' = "reported"
    /\ UNCHANGED <<labels, mode, loop_i, successCount, failCount, details, keys_sent,
                   exported, scannerVars, ocrVars, recordingVars, searchVars, runVars,
                   labelVars, hostVars>>

(***************************************************************************)
(* Specifications                                                          *)
(***************************************************************************)
\* the classifier
Init == ScannerInit /\ OcrIdle /\ SearchIdle /\ LabelsIdle /\ HostIdle /\ ApplyIdle
Next == Classify
Spec == Init /\ [][Next]_vars

\* two battles of one recording, frames of another size, repeated runs
InitBattles == ScannerIdle /\ OcrIdle /\ SearchIdle /\ LabelsIdle /\ HostIdle /\ ApplyIdle
NextBattles ==
    \/ DetectBattles
    \/ DetectNextBattle
    \/ FindTextBoundaryAgain
    \/ SampleStep
    \/ SampleClamp
    \/ RefineStep
    \/ RefineDone
    \/ StartTransition
    \/ Phase1Step
    \/ Phase1Fail
    \/ Phase2Step
    \/ Phase2Fail
    \/ FineSweepStep
    \/ FineSweepEnd
    \/ CoarseSweepStep
    \/ CoarseSweepEnd
    \/ StartCutOut
    \/ CommitSegment
SpecBattles == InitBattles /\ [][NextBattles]_vars

\* the scripts called on the host application
InitPanel == ScannerIdle /\ OcrIdle /\ SearchIdle /\ LabelsIdle /\ HostInit /\ ApplyIdle
NextPanel == SelectClipAtTime \/ ProcessBattle \/ FindLabelCommands
SpecPanel == InitPanel /\ [][NextPanel]_vars

\* the label applicator in automatic and in export mode
InitApply == ScannerIdle /\ OcrIdle /\ SearchIdle /\ LabelsIdle /\ ApplyInit
NextApply == ExportForPython \/ AutoStep \/ AutoReport
SpecApply == InitApply /\ [][NextApply]_vars

\* OCR of one frame and matching of its text
InitOcr == ScannerIdle /\ OcrInit /\ SearchIdle /\ LabelsIdle /\ HostIdle /\ ApplyIdle
NextOcr == GetOcrText \/ CheckTrainer
SpecOcr == InitOcr /\ [][NextOcr]_vars

\* the label applicator reads one file
InitLabels == ScannerIdle /\ OcrIdle /\ SearchIdle /\ LabelsInit /\ HostIdle /\ ApplyIdle
NextLabels == ParseLabels \/ ReportLabels
SpecLabels == InitLabels /\ [][NextLabels]_vars

\* the searches of one battle
InitSearch == ScannerIdle /\ OcrIdle /\ SearchIdle /\ LabelsIdle /\ HostIdle /\ ApplyIdle
NextSearch ==
    \/ DetectBattle
    \/ SampleStep
    \/ SampleClamp
    \/ RefineStep
    \/ RefineDone
    \/ StartTransition
    \/ Phase1Step
    \/ Phase1Fail
    \/ Phase2Step
    \/ Phase2Fail
    \/ FineSweepStep
    \/ FineSweepEnd
    \/ CoarseSweepStep
    \/ CoarseSweepEnd
    \/ StartCutOut
    \/ CommitSegment
SpecSearch == InitSearch /\ [][NextSearch]_vars
\* the caller runs the searches to completion
SearchStep == state # "IDLE" /\ NextSearch
SpecSearchFair == SpecSearch /\ WF_vars(SearchStep)

(***************************************************************************)
(* Properties                                                              *)
(***************************************************************************)
\* the header text is visible on one interval of frames around the
\* detection frame
ContiguousText == detection_frame \in visible /\ visible = Min(visible)..Max(visible)
TransitionFrames == {f \in 0..last_frame : IsTransition(f)}

\* C1: when the trainer text is visible on a contiguous interval around
\* start_frame and SAMPLING found a non-matching sample, the boundary
\* returned in DONE is the first frame in the search direction where the
\* pattern does not match: the frame just below the interval for cut-in, the
\* frame just above it for cut-out.
BoundaryIsFirstNonMatchingFrame ==
    \A dir \in Directions :
        (text_edge[dir] # -1 /\ ~degraded[dir] /\ ContiguousText) =>
            /\ text_edge[dir] = IF dir = "before" THEN Min(visible) - 1
                                ELSE Max(visible) + 1
            /\ ~Matched(text_edge[dir])

BoundaryRefinedBothWays ==
    /\ jump_size = 3
    /\ probes["before"]["REFINING"] = 2
    /\ probes["after"]["REFINING"] = 1
    /\ ContiguousText
    /\ text_edge["before"] = Min(visible) - 1
    /\ text_edge["after"] = Max(visible) + 1

\* C2: every committed segment has cut_in_frame < text_edge_frame_before <=
\* detection_frame < text_edge_frame_after <= cut_out_frame.
SegmentOrdered ==
    segment.committed =>
        /\ segment.cut_in_frame < segment.text_edge_frame_before
        /\ segment.text_edge_frame_before <= segment.detection_frame
        /\ segment.detection_frame < segment.text_edge_frame_after
        /\ segment.text_edge_frame_after <= segment.cut_out_frame

\* C3 as stated: the cut-in text boundary is strictly below the detection
\* frame and the cut-out text boundary strictly above it, clamped or not.
BoundaryStrictlyAroundDetection ==
    /\ text_edge["before"] # -1 => text_edge["before"] < detection_frame
    /\ text_edge["after"] # -1 => text_edge["after"] > detection_frame

\* C3 amended: the cut-in text boundary is strictly below the detection frame
\* unless the detection frame is frame 0, where the clamped boundary is frame
\* 0; the cut-out text boundary is strictly above the detection frame unless
\* the detection frame is the last frame, where the clamped boundary is the
\* last frame.
BoundaryAroundDetectionUnlessAtEnd ==
    /\ text_edge["before"] # -1 =>
          \/ text_edge["before"] < detection_frame
          \/ /\ detection_frame = 0
             /\ degraded["before"]
             /\ text_edge["before"] = 0
    /\ text_edge["after"] # -1 =>
          \/ text_edge["after"] > detection_frame
          \/ /\ detection_frame = last_frame
             /\ degraded["after"]
             /\ text_edge["after"] = last_frame

ClampedAtDetectionFrame ==
    /\ detection_frame = 0
    /\ degraded["before"]
    /\ text_edge["before"] = 0
    /\ text_edge["after"] > detection_frame

ShortBattleFollowedBy(S) ==
    /\ ContiguousText
    /\ Cardinality(visible) < jump_size
    /\ \E f \in S : f > Max(visible)

CutOutWindow ==
    {f \in 0..last_frame :
        /\ f >= text_edge["after"]
        /\ f < text_edge["after"] + 2 * jump_size}
SweepFrames ==
    {f \in 0..last_frame :
        \/ \E k \in 0..last_frame :
              f = detection_frame + FINE_STEP * k /\ f < detection_frame + FineWindow
        \/ \E k \in 0..last_frame :
              f = detection_frame + COARSE_STEP * k /\ f < detection_frame + CoarseWindow}

RECURSIVE CeilLog2(_)
CeilLog2(n) == IF n <= 1 THEN 0 ELSE 1 + CeilLog2((n + 1) \div 2)
CeilDiv(a, b) == (a + b - 1) \div b

ProbeBudget(phase) ==
    CASE phase = "SAMPLING"      -> MAX_JUMPS
      [] phase = "REFINING"      -> CeilLog2(MAX_JUMPS * jump_size)
      [] phase = "PHASE1"        -> jump_size
      [] phase = "PHASE2"        -> jump_size
      [] phase = "PHASE3_FINE"   -> CeilDiv(FineWindow, FINE_STEP)
      [] phase = "PHASE3_COARSE" -> CeilDiv(CoarseWindow, COARSE_STEP)

WithinBudgets ==
    \A dir \in Directions, phase \in Phases :
        /\ probes[dir][phase] <= ProbeBudget(phase)
        /\ entered[dir][phase] <= 1

ClassifyThresholds ==
    cls # "unclassified" =>
        /\ cls = "black" <=> mean <= 500
        /\ cls = "white" <=> mean >= 25000
        /\ (mean >= 600 /\ mean <= 24900) => cls = "neither"
        /\ mean \in {1, 500} => cls = "black"
        /\ mean \in {25000, 25499} => cls = "white"
        /\ mean \in {600, 601, 12800, 23800, 23895} => cls = "neither"

ClassifiedAtThreshold == cls = "white" /\ mean = 25000

\* C8: the OCR method depends on the generation alone: Gen1..Gen4 use
\* percentile-threshold preprocessing with single-line recognition (PSM 7),
\* Gen5 raw block recognition (PSM 6), whatever the pattern family.
PreprocessingKeyedOnGeneration ==
    /\ ocr_pc # "frame" =>
          ocr_method =
             IF game_config.generation = "GEN5"
             THEN [preprocess |-> "raw", psm |-> 6]
             ELSE [preprocess |-> "percentile_threshold", psm |-> 7]
    /\ \A c1 \in GameConfigs, c2 \in GameConfigs :
          c1.generation = c2.generation => ocr_method_for(c1) = ocr_method_for(c2)
    /\ \A v \in Versions :
          ocr_method_for([version |-> v, generation |-> "GEN2", ocr_pattern |-> "team"])
             # ocr_method_for([version |-> v, generation |-> "GEN5", ocr_pattern |-> "team"])

Gen2TeamPreprocessed ==
    /\ ocr_pc = "ocr"
    /\ game_config.generation = "GEN2"
    /\ game_config.ocr_pattern = "team"
    /\ ocr_method.preprocess = "percentile_threshold"
    /\ shot \in FailureShots
    /\ text = shot.pre

RivalText(num, apo) ==
    RivalWord \o num \o apo \o <<"s", Space, "t", "e", "a", "m">>
Apostrophes == {<<Apostrophe>>, <<CurlyApostrophe>>}
BareRivalTexts ==
    {RivalText(<< >>, apo) : apo \in Apostrophes \cup {<< >>}}
       \cup {RivalText(<<"t">>, apo) : apo \in Apostrophes}
Rival2Texts ==
    {RivalText(num, apo) : num \in {<<Space, "2">>, <<"2">>},
                           apo \in Apostrophes \cup {<< >>}}

\* C9: "rival's team", "rivals team" and "rivalt's team" resolve to the
\* Rival family; "rival 2's team", "rival2's team" and "rival 2s team"
\* resolve to rival number 2; with a straight or a curly apostrophe.
RivalTextsResolve ==
    ocr_pc = "matched" =>
        /\ text \in BareRivalTexts => identity = [name |-> "Rival", number |-> -1]
        /\ text \in Rival2Texts => identity = [name |-> "Rival", number |-> 2]
        /\ text = RivalText(<<Space, "1", "2">>, <<Apostrophe>>) =>
              identity = [name |-> "Rival", number |-> 12]

Rival2NoApostropheMatched ==
    /\ ocr_pc = "matched"
    /\ text = RivalText(<<Space, "2">>, << >>)
    /\ identity = [name |-> "Rival", number |-> 2]

\* C10: in Crystal "Lance's Team" and "Champion's Team" are the same
\* identity, so every frame of a battle whose header alternates between the
\* two spellings matches the detected trainer and lies within the text edges
\* of the one segment.
AliasIsOneBattle ==
    spelling = "alternate" =>
        /\ trainer = [name |-> "Lance", number |-> -1]
        /\ \A dir \in Directions :
              (text_edge[dir] # -1 /\ ~degraded[dir]) => text_edge[dir] \notin visible
        /\ segment.committed =>
              /\ match(LanceTeam, game_config.version)
                    = match(ChampionTeam, game_config.version)
              /\ segment.trainer_identity = [name |-> "Lance", number |-> -1]
              /\ \A f \in visible :
                    /\ match(TextAt(f), game_config.version) = trainer
                    /\ segment.text_edge_frame_before <= f
                    /\ f <= segment.text_edge_frame_after

AlternatingBattleCommitted ==
    /\ spelling = "alternate"
    /\ segment.committed
    /\ Cardinality(visible) = MaxBattle
    /\ ~degraded["before"] /\ ~degraded["after"]
    /\ segment.text_edge_frame_before = Min(visible) - 1
    /\ segment.text_edge_frame_after = Max(visible) + 1
    /\ probes["after"]["SAMPLING"] > 1

\* the frames the running boundary search sent to OCR while SAMPLING
Samples == SubSeq(ocr_probed, 1, probes[direction]["SAMPLING"])
\* the k-th frame SAMPLING probes
SampleFrame(k) ==
    IF direction = "before" THEN detection_frame - k * jump_size
    ELSE detection_frame + k * jump_size
Abs(n) == IF n < 0 THEN -n ELSE n
Searching == state \in {"SAMPLING", "REFINING", "DONE"}
\* SAMPLING has just handed its interval to REFINING
HandedOver == state = "REFINING" /\ probes[direction]["REFINING"] = 0

\* the samples are start_frame plus successive multiples of jump_size, every
\* sample but a last non-matching one matches, and REFINING starts with that
\* first non-matching sample as outside
SamplingInOrder ==
    Searching =>
        /\ \A k \in 1..Len(Samples) : Samples[k] = SampleFrame(k)
        /\ \A k \in 1..(Len(Samples) - 1) : Matched(Samples[k])
        /\ state = "SAMPLING" => \A k \in 1..Len(Samples) : Matched(Samples[k])
        /\ HandedOver =>
              /\ Len(Samples) >= 1
              /\ outside = Samples[Len(Samples)]
              /\ ~Matched(outside)
              /\ Matched(inside)

HandedWidth(dir) ==
    IF dir = "after" /\ refine_low = "start_frame"
    THEN probes[dir]["SAMPLING"] * jump_size
    ELSE jump_size

\* one probe of REFINING: the probed frame lies strictly between inside and
\* outside and becomes one of them, so the interval strictly shrinks
RefineShrinks ==
    (state = "REFINING" /\ probes'[direction]["REFINING"] = probes[direction]["REFINING"] + 1) =>
        LET mid == ocr_probed'[Len(ocr_probed')]
        IN  /\ (inside < mid /\ mid < outside) \/ (outside < mid /\ mid < inside)
            /\ Abs(outside' - inside') < Abs(outside - inside)
            /\ Abs(outside' - inside') >= 1

DegradedOnlyWhenClamped ==
    /\ \A k \in 1..Len(ocr_probed) : ocr_probed[k] >= 0 /\ ocr_probed[k] <= last_frame
    /\ \A dir \in Directions :
          /\ degraded[dir] =>
                /\ text_edge[dir] = (IF dir = "before" THEN 0 ELSE last_frame)
                /\ entered[dir]["REFINING"] = 0
                /\ probes[dir]["REFINING"] = 0
          /\ (text_edge[dir] # -1 /\ entered[dir]["REFINING"] = 1) => ~degraded[dir]
          /\ (text_edge[dir] # -1 /\ entered[dir]["REFINING"] = 0) => degraded[dir]
    /\ (state = "DONE" /\ degraded[direction]) =>
          /\ \A k \in 1..Len(Samples) : Matched(Samples[k])
          /\ \/ Len(Samples) = MAX_JUMPS
             \/ SampleFrame(Len(Samples) + 1) < 0
             \/ SampleFrame(Len(Samples) + 1) > last_frame

ClampedAfterEveryJumpMatched ==
    /\ state = "DONE"
    /\ direction = "after"
    /\ degraded["after"]
    /\ Len(Samples) = MAX_JUMPS
    /\ text_edge["after"] = last_frame
    /\ SampleFrame(MAX_JUMPS + 1) <= last_frame
    /\ ~degraded["before"]

\* Phase 1 returned the cut point of direction dir
FoundInPhase1(dir) ==
    /\ cut[dir].status = "found"
    /\ probes[dir]["PHASE2"] = 0
    /\ entered[dir]["PHASE3_FINE"] = 0
\* the frames Phase 1 scans: jump_size frames from the text boundary
Phase1Window(dir) ==
    {f \in 0..last_frame :
        IF dir = "before"
        THEN f <= text_edge[dir] /\ text_edge[dir] - f < jump_size
        ELSE f >= text_edge[dir] /\ f - text_edge[dir] < jump_size}

\* C20: Phase 1 scans at most jump_size frames from the text boundary,
\* backward for cut-in and forward for cut-out, and returns the black or
\* white frame of that window nearest to the text boundary; it returns no
\* frame on the battle side of the text boundary.
Phase1ReturnsNearest ==
    \A dir \in Directions :
        /\ probes[dir]["PHASE1"] <= jump_size
        /\ FoundInPhase1(dir) =>
              /\ cut[dir].frame \in Phase1Window(dir) \cap TransitionFrames
              /\ \A f \in Phase1Window(dir) \cap TransitionFrames :
                    Abs(f - text_edge[dir]) >= Abs(cut[dir].frame - text_edge[dir])
        /\ (cut[dir] # NoCut /\ Phase1Window(dir) \cap TransitionFrames # {}) =>
              FoundInPhase1(dir)

CutInPrefersNearerBlack ==
    /\ FoundInPhase1("before")
    /\ cut["before"].frame \in black
    /\ \E w \in white \cap Phase1Window("before") : w < cut["before"].frame
    /\ ~degraded["before"]

RivaltTeam == RivalText(<<"t">>, <<Apostrophe>>)
RivallTeam == RivalText(<<"l">>, <<Apostrophe>>)

AutomationInput == content.kind = "object" /\ content.labels_kind = "array" /\ Len(content.labels) > 0
TimeboltInput == content.kind = "array"
WellFormed(ls) ==
    \A i \in 1..Len(ls) : DOMAIN ls[i] = {"start_seconds", "label", "trainer"}

\* C15 as stated: parseLabelsJSON returns an error or a list of
\* {start_seconds, label, trainer}: one entry per entry of a non-empty
\* Automation Blocks input; the labelled entries of a Timebolt array, in
\* order; a missing trainer or name becomes "Unknown"; every other content
\* gives an error and no labels.
ParseLabelsReturnsListOrError ==
    label_pc # "file" =>
        /\ ~parsed.thrown
        /\ WellFormed(parsed.labels)
        /\ \A i \in 1..Len(parsed.labels) : parsed.labels[i].trainer # Undefined
        /\ AutomationInput =>
              /\ ~parsed.error
              /\ Len(parsed.labels) = Len(content.labels)
              /\ \A i \in 1..Len(parsed.labels) :
                    /\ parsed.labels[i].start_seconds = content.labels[i].start_seconds
                    /\ parsed.labels[i].label = content.labels[i].label
        /\ TimeboltInput =>
              /\ ~parsed.error
              /\ Len(parsed.labels) =
                    Cardinality({i \in 1..Len(content.items) : content.items[i].label \in {Str("Rival")}})
        /\ ~(AutomationInput \/ TimeboltInput) => parsed.error /\ parsed.labels = << >>

\* what parseLabelsJSON does: it throws when the content or an element is
\* null; an empty array is an unknown format; the characters of a non-empty
\* string are read as unlabelled Timebolt entries
ParseLabelsBehaviour ==
    label_pc # "file" =>
        /\ WellFormed(parsed.labels)
        /\ parsed.thrown <=>
              \/ content.kind = "null"
              \/ AutomationInput /\ HasNull(content.labels)
              \/ TimeboltInput /\ HasNull(content.items)
        /\ parsed.error <=>
              \/ content.kind \in {"unparsable", "number"}
              \/ content.kind = "object" /\ ~AutomationInput
              \/ content.kind \in {"array", "string"} /\ Len(content.items) = 0
        /\ (parsed.error \/ parsed.thrown) => parsed.labels = << >>
        /\ (AutomationInput /\ ~parsed.thrown) =>
              /\ Len(parsed.labels) = Len(content.labels)
              /\ \A i \in 1..Len(parsed.labels) :
                    /\ parsed.labels[i].start_seconds = content.labels[i].start_seconds
                    /\ parsed.labels[i].label = content.labels[i].label
                    /\ parsed.labels[i].trainer =
                          IF content.labels[i].trainer = Str("Falkner")
                          THEN Str("Falkner") ELSE Str("Unknown")
        /\ (TimeboltInput /\ ~parsed.thrown /\ ~parsed.error) =>
              /\ Len(parsed.labels) =
                    Cardinality({i \in 1..Len(content.items) : content.items[i].label = Str("Rival")})
              /\ \A i \in 1..Len(parsed.labels) :
                    /\ parsed.labels[i].label = Str("Rival")
                    /\ parsed.labels[i].trainer \in {Str("Falkner"), Str("Unknown")}
        /\ (content.kind = "string" /\ Len(content.items) > 0) =>
              ~parsed.error /\ parsed.labels = << >>

NullContentThrows ==
    /\ label_pc = "script_error"
    /\ content.kind = "null"
    /\ parsed.thrown

\* OCR reads from frame f an empty header or a text that names no trainer
Garbage(f) ==
    /\ f \notin small
    /\ IF f \in other THEN other_text = RivalSTeam("l") ELSE f \notin visible

LastProbed == ocr_probed[Len(ocr_probed)]

\* C11: for a frame whose text matches no registered pattern (empty or
\* garbage) match returns no match and no error, and the search that probed
\* the frame takes it as a frame without the battle and goes on: the frame
\* becomes the outside end of the binary search, the search does not abort.
GarbageIsNoBattle ==
    state # "IDLE" =>
        /\ \A f \in 0..last_frame : Garbage(f) => ocr_identity[f] = NoMatch
        /\ (/\ state \in {"SAMPLING", "REFINING", "FAULT"}
            /\ ocr_probed # << >>
            /\ Garbage(LastProbed)) =>
              state = "REFINING" /\ outside = LastProbed

GarbageProbeTakenAsNoBattle ==
    /\ state = "REFINING"
    /\ ocr_probed # << >>
    /\ LastProbed \in other
    /\ other_text = RivalSTeam("l")
    /\ outside = LastProbed
    /\ ocr_identity[LastProbed] = NoMatch

\* C12: when the OCR crop lies outside the frame, extract fails with
\* ExtractionError and the running search ends as a fault: the probe is the
\* last one of the search, it is not taken as a non-matching sample, and the
\* search yields no boundary, no cut point and no segment.
ExtractionErrorEndsSearch ==
    state # "IDLE" =>
        /\ \A f \in small :
              /\ ~CropInside(OcrCropRect, FrameSize(small, f))
              /\ ocr_identity[f] = ExtractionError
        /\ \A i \in 1..Len(ocr_probed) :
              ocr_probed[i] \in small =>
                 /\ i = Len(ocr_probed)
                 /\ state = "FAULT"
                 /\ outside # ocr_probed[i]
                 /\ text_edge[direction] = -1
                 /\ cut[direction] = NoCut
                 /\ ~segment.committed
        /\ state = "FAULT" => ocr_probed # << >> /\ LastProbed \in small

ExtractionErrorEndedCutOut ==
    /\ state = "FAULT"
    /\ direction = "after"
    /\ text_edge["before"] >= 0
    /\ LastProbed \in small
    /\ Len(ocr_probed) > 1

\* C13 as stated: the committed intervals [cut_in_frame, cut_out_frame] of the
\* segments of two battles of one recording do not overlap.
SegmentsDoNotOverlap ==
    (previous.committed /\ segment.committed) =>
        (previous.cut_in_frame..previous.cut_out_frame)
            \cap (segment.cut_in_frame..segment.cut_out_frame) = {}

ExtendedFrames ==
    {f \in 0..last_frame :
        f >= text_edge["after"] /\ f < text_edge["after"] + 2 * jump_size}

\* C21: Phase 2 runs only for cut-out and only after Phase 1 found nothing;
\* it scans forward no further than text boundary + 2 x jump_size; a black or
\* white frame less than 2 x jump_size frames after the cut-out text boundary
\* is returned without Phase 3; a cut-in search whose Phase 1 fails goes to
\* the fallback with no extended window.
Phase2OnlyExtendsCutOut ==
    /\ entered["before"]["PHASE2"] = 0 /\ probes["before"]["PHASE2"] = 0
    /\ state = "PHASE2" =>
          /\ direction = "after"
          /\ cut["after"] = NoCut
          /\ \A f \in text_edge["after"]..(scan - 1) : ~IsTransition(f)
          /\ scan <= text_edge["after"] + 2 * jump_size
          /\ probes["after"]["PHASE2"] > 0 => last_probed < text_edge["after"] + 2 * jump_size
    /\ entered["after"]["PHASE2"] > 0 =>
          probes["after"]["PHASE1"] = Cardinality({f \in ExtendedFrames : f < text_edge["after"] + jump_size})
    /\ entered["after"]["PHASE3_FINE"] > 0 =>
          /\ entered["after"]["PHASE2"] = 1
          /\ \A f \in ExtendedFrames : ~IsTransition(f)
    /\ (cut["after"] # NoCut /\ \E f \in ExtendedFrames : IsTransition(f)) =>
          /\ entered["after"]["PHASE3_FINE"] = 0
          /\ cut["after"].status = "found"
          /\ cut["after"].frame = Min({f \in ExtendedFrames : IsTransition(f)})
    /\ entered["before"]["PHASE3_FINE"] > 0 =>
          /\ probes["before"]["PHASE1"] <= jump_size
          /\ \A f \in 0..last_frame :
                (f <= text_edge["before"] /\ f > text_edge["before"] - jump_size) =>
                    ~IsTransition(f)

CutOutFoundInPhase2 ==
    /\ cut["after"].status = "found"
    /\ entered["after"]["PHASE2"] = 1
    /\ entered["after"]["PHASE3_FINE"] = 0
    /\ cut["after"].frame >= text_edge["after"] + jump_size
    /\ entered["before"]["PHASE3_FINE"] = 1

\* frame k of the fine and of the coarse sweep
FineFrame(k) == detection_frame + FINE_STEP * k
CoarseFrame(k) == detection_frame + COARSE_STEP * k

\* the fine sweep of direction dir ran over its whole window, or to the end of
\* the recording, and probed no black or white frame
FineSweepFailed(dir) ==
    /\ \/ FineFrame(probes[dir]["PHASE3_FINE"]) >= detection_frame + FineWindow
       \/ FineFrame(probes[dir]["PHASE3_FINE"]) > last_frame
    /\ \A k \in 0..(probes[dir]["PHASE3_FINE"] - 1) : ~IsTransition(FineFrame(k))

\* C22: Phase 3 starts only after the windowed phases failed; it begins at the
\* detection frame; the fine sweep runs completely before the coarse sweep;
\* the first black or white frame probed is returned; no frame beyond the last
\* frame is probed; the cut point is the last frame when the sweep reaches the
\* end of the recording.
FallbackSweepsFromDetection ==
    /\ last_probed <= last_frame
    /\ state \in {"PHASE3_FINE", "PHASE3_COARSE"} =>
          /\ cut[direction] = NoCut
          /\ entered[direction]["PHASE1"] = 1
          /\ entered[direction]["PHASE2"] = IF direction = "after" THEN 1 ELSE 0
          /\ scan = IF state = "PHASE3_FINE"
                    THEN FineFrame(probes[direction]["PHASE3_FINE"])
                    ELSE CoarseFrame(probes[direction]["PHASE3_COARSE"])
          /\ state = "PHASE3_FINE" => probes[direction]["PHASE3_COARSE"] = 0
          /\ state = "PHASE3_COARSE" => FineSweepFailed(direction)
    /\ \A dir \in Directions :
          (cut[dir] # NoCut /\ entered[dir]["PHASE3_FINE"] > 0) =>
              LET fine == probes[dir]["PHASE3_FINE"]
                  coarse == probes[dir]["PHASE3_COARSE"]
              IN  IF cut[dir].status = "found"
                  THEN IF entered[dir]["PHASE3_COARSE"] = 0
                       THEN /\ cut[dir].frame = FineFrame(fine - 1)
                            /\ IsTransition(cut[dir].frame)
                            /\ \A k \in 0..(fine - 2) : ~IsTransition(FineFrame(k))
                       ELSE /\ FineSweepFailed(dir)
                            /\ cut[dir].frame = CoarseFrame(coarse - 1)
                            /\ IsTransition(cut[dir].frame)
                            /\ \A k \in 0..(coarse - 2) : ~IsTransition(CoarseFrame(k))
                  ELSE /\ FineSweepFailed(dir)
                       /\ \A k \in 0..(coarse - 1) : ~IsTransition(CoarseFrame(k))
                       /\ IF CoarseFrame(coarse) < detection_frame + CoarseWindow
                          THEN /\ CoarseFrame(coarse) > last_frame
                               /\ cut[dir] = [frame |-> last_frame, status |-> "clamped"]
                          ELSE cut[dir] = [frame |-> CoarseFrame(coarse - 1),
                                           status |-> "not_found"]

SweepClampedToLastFrame ==
    /\ cut["after"] = [frame |-> last_frame, status |-> "clamped"]
    /\ probes["after"]["PHASE3_FINE"] = 2
    /\ probes["after"]["PHASE3_COARSE"] >= 1
    /\ CoarseFrame(probes["after"]["PHASE3_COARSE"]) > last_frame

\* the probes of the running boundary search that SAMPLING made
SampleCount == probes[direction]["SAMPLING"]

SelectedLines == {k \in 1..Len(details) : details[k].text \notin {"No clip", "setSelected"}}
ShortcutsSent == {k \in 1..Len(keys_sent) : keys_sent[k] # "+3"}

\* C24 as stated: in automatic mode the entries are processed in list order,
\* each exactly once; a label shortcut is sent for an entry only after
\* selectClipAtTime succeeded for it; when the loop is over successCount +
\* failCount = labels.length and details holds one line per entry.
EveryEntryProcessedOnce ==
    mode = "auto" =>
        /\ Len(details) = loop_i
        /\ successCount + failCount = loop_i
        /\ Cardinality(ShortcutsSent) = successCount
        /\ Cardinality(ShortcutsSent) <= Cardinality(SelectedLines)
        /\ apply_pc # "loop" =>
              /\ loop_i = Len(labels)
              /\ successCount + failCount = Len(labels)
              /\ Len(details) = Len(labels)

\* C25 as stated: for every label of the list, the shortcut
\* applyLabelViaShortcut sends equals the shortcut exportForPython writes.
ModesResolveSameShortcut ==
    apply_pc = "exported" =>
        \A k \in 1..Len(exported) :
            /\ ~applyLabelViaShortcut(labels[k].label).thrown
            /\ applyLabelViaShortcut(labels[k].label).shortcut = exported[k].shortcut

\* the playhead tick of the last call
CallTick == secondsToTicks(call.seconds.halves + OFFSET_SECONDS)

\* C26 as stated: after selectClipAtTime returns success exactly one video
\* clip is selected and it contains the playhead tick; after it returns
\* failure no video clip is selected; processBattle selects the same clip for
\* the same sequence and time.
SelectsClipAtPlayhead ==
    call.fn = "selectClipAtTime" =>
        /\ call.result.success =>
              /\ Cardinality(selected) = 1
              /\ playhead = CallTick
              /\ \A id \in selected : Contains(ClipAt(tracks, id), CallTick)
        /\ ~call.result.success => selected = {}
        /\ ~call.seconds.nan =>
              /\ processBattle(tracks, call.before, call.seconds).success = call.result.success
              /\ processBattle(tracks, call.before, call.seconds).selected = selected

\* C27 as stated: findLabelCommands leaves the state of the host (selection,
\* clip labels) as it was.
FindLabelCommandsChangesNothing ==
    call.fn = "findLabelCommands" =>
        /\ selected = call.before
        /\ clip_label = call.labelled

====
